---- MODULE Spec2Model ----
(***************************************************************************)
(* Model of GraphQLClientProject                                           *)
(* (src/src/language-server/project/client.ts).                            *)
(*                                                                         *)
(* Four specifications share one set of variables:                         *)
(*   SpecClosure / FairClosure : getOperationWithFragments, one action per *)
(*                               iteration of its while loop;              *)
(*   SpecService               : the operations / merged-operations        *)
(*                               getters applied to a document store;      *)
(*   Spec                      : a project without engine client: document *)
(*                               changes, schema loads, validation passes; *)
(*   SpecLoads                 : a project with an engine client: schema   *)
(*                               loads and engine data loads.              *)
(***************************************************************************)
EXTENDS Integers, Sequences, FiniteSets, TLC

VARIABLES
  documentsByFile,     \* base: Map<uri, document[]>, insertion-ordered
  config,              \* this.config (graph, client.*)
  \* ---- getOperationWithFragments: the locals of one call -----------------
  closurePc,           \* "idle" | "loop" | "done"
  operationDefinition, \* the argument
  fragments,           \* const fragments = this.fragments
  seenFragmentNames,   \* Set<string>
  allDefinitions,      \* the result list
  defintionsToSearch,  \* the work queue (spelled as in the source)
  \* ---- getters ------------------------------------------------------------
  getterResult,        \* outcome of the last getter call
  \* ---- the project ---------------------------------------------------------
  serviceSchema,       \* this.serviceSchema
  schema,              \* this.schema
  handlers,            \* which of _onDiagnostics, _onDecorations, _onSchemaTags are set
  fieldLatenciesMS,    \* this.fieldLatenciesMS
  frontendUrlRoot,     \* this.frontendUrlRoot
  lastLoadDate,        \* this.lastLoadDate
  diagnosticSet,       \* this.diagnosticSet
  schemaLoad,          \* loadServiceSchema in flight: where it waits
  engineLoad,          \* loadEngineData in flight: where it waits, state at its call
  lastStep,            \* the handler that ran last, and what it caught
  calls                \* the callbacks the last handler invoked, in order

docVars == <<documentsByFile, config>>
closureVars == <<closurePc, operationDefinition, fragments, seenFragmentNames,
                 allDefinitions, defintionsToSearch>>
getterVars == <<getterResult>>
projectVars == <<serviceSchema, schema, handlers, fieldLatenciesMS, frontendUrlRoot,
                 lastLoadDate, diagnosticSet, schemaLoad, engineLoad, lastStep, calls>>
vars == <<documentsByFile, config, closurePc, operationDefinition, fragments,
          seenFragmentNames, allDefinitions, defintionsToSearch, getterResult,
          serviceSchema, schema, handlers, fieldLatenciesMS, frontendUrlRoot,
          lastLoadDate, diagnosticSet, schemaLoad, engineLoad, lastStep, calls>>

(***************************************************************************)
(* AST nodes.  Every selection carries the same record fields so that      *)
(* nodes of different kinds can sit in one list.                           *)
(***************************************************************************)
NoName == "<none>"
NoAST == [kind |-> "null", definitions |-> <<>>]

FragmentSpread(n) ==
  [kind |-> "FragmentSpread", name |-> n, directives |-> <<>>, selections |-> <<>>]
Field(n, dirs, sels) ==
  [kind |-> "Field", name |-> n, directives |-> dirs, selections |-> sels]
OperationDefinition(n, sels) ==
  [kind |-> "OperationDefinition", name |-> n, selections |-> sels]
FragmentDefinition(n, sels) ==
  [kind |-> "FragmentDefinition", name |-> n, selections |-> sels]
Document(defs) == [kind |-> "Document", definitions |-> defs]

URIs == <<"a.graphql", "b.graphql">>

SeqsUpTo(S, n) == UNION {[1..k -> S] : k \in 0..n}
Range(s) == {s[i] : i \in DOMAIN s}

RECURSIVE Flatten(_)
Flatten(ss) == IF ss = <<>> THEN <<>> ELSE Head(ss) \o Flatten(Tail(ss))

\* base: get documents() -- every document of every file, in map order
Documents(byFile) == Flatten([i \in DOMAIN URIs |-> byFile[URIs[i]]])

\* every definition of every document that has an AST, in scan order
AllDefinitionNodes(byFile) ==
  Flatten([i \in DOMAIN Documents(byFile) |->
             IF Documents(byFile)[i].ast = NoAST THEN <<>>
             ELSE Documents(byFile)[i].ast.definitions])

\* get fragments(): name -> definition, a later definition overwrites
RECURSIVE FragmentsFrom(_, _)
FragmentsFrom(defs, acc) ==
  IF defs = <<>> THEN acc
  ELSE LET d == Head(defs) IN
       FragmentsFrom(Tail(defs),
         IF d.kind = "FragmentDefinition"
         THEN [n \in DOMAIN acc \cup {d.name} |-> IF n = d.name THEN d ELSE acc[n]]
         ELSE acc)

Fragments(byFile) == FragmentsFrom(AllDefinitionNodes(byFile), <<>>)

(***************************************************************************)
(* getOperationWithFragments                                               *)
(***************************************************************************)
\* visit(node, {FragmentSpread}) : the names of the spreads in visit order
RECURSIVE FragmentSpreadsIn(_)
FragmentSpreadsIn(selections) ==
  IF selections = <<>> THEN <<>>
  ELSE LET s == Head(selections) IN
       (IF s.kind = "FragmentSpread" THEN <<s.name>>
        ELSE FragmentSpreadsIn(s.selections))
       \o FragmentSpreadsIn(Tail(selections))

\* mutant: the seen-set is never consulted
VisitSpreadNoSeen(st, fragmentName, registry) ==
  IF fragmentName \in DOMAIN registry
  THEN [seen |-> st.seen \cup {fragmentName},
        all |-> Append(st.all, registry[fragmentName]),
        queue |-> Append(st.queue, registry[fragmentName])]
  ELSE st

\* mutant: newly found fragments are searched first (depth-first)
VisitSpreadDepthFirst(st, fragmentName, registry) ==
  IF fragmentName \notin st.seen /\ fragmentName \in DOMAIN registry
  THEN [seen |-> st.seen \cup {fragmentName},
        all |-> <<st.all[1], registry[fragmentName]>> \o Tail(st.all),
        queue |-> Append(st.queue, registry[fragmentName])]
  ELSE st

\* the body of the FragmentSpread visitor
VisitSpread(st, fragmentName, registry) ==
  IF fragmentName \notin st.seen /\ fragmentName \in DOMAIN registry
  THEN [seen |-> st.seen \cup {fragmentName},
        all |-> Append(st.all, registry[fragmentName]),
        queue |-> Append(st.queue, registry[fragmentName])]
  ELSE st

RECURSIVE VisitDefinition(_, _, _)
VisitDefinition(st, names, registry) ==
  IF names = <<>> THEN st
  ELSE VisitDefinition(VisitSpread(st, Head(names), registry), Tail(names), registry)

OperationNodes(byFile) ==
  {d \in Range(AllDefinitionNodes(byFile)) : d.kind = "OperationDefinition"}

CallGetOperationWithFragments ==
  /\ closurePc \in {"idle", "done"}
  /\ \E op \in OperationNodes(documentsByFile) :
       /\ operationDefinition' = op
       /\ fragments' = Fragments(documentsByFile)
       /\ seenFragmentNames' = {}
       /\ allDefinitions' = <<op>>
       /\ defintionsToSearch' = <<op>>
  /\ closurePc' = "loop"
  /\ UNCHANGED <<docVars, getterVars, projectVars>>

\* one iteration: shift() the queue, visit the definition
SearchDefinition ==
  /\ closurePc = "loop"
  /\ defintionsToSearch # <<>>
  /\ \E currentDefinition \in {Head(defintionsToSearch)} :
     \E st \in {VisitDefinition(
                  [seen |-> seenFragmentNames, all |-> allDefinitions,
                   queue |-> Tail(defintionsToSearch)],
                  FragmentSpreadsIn(currentDefinition.selections),
                  fragments)} :
        /\ seenFragmentNames' = st.seen
        /\ allDefinitions' = st.all
        /\ defintionsToSearch' = st.queue
  /\ UNCHANGED <<closurePc, operationDefinition, fragments, docVars, getterVars,
                 projectVars>>

\* shift() returned undefined: return allDefinitions
ReturnAllDefinitions ==
  /\ closurePc = "loop"
  /\ defintionsToSearch = <<>>
  /\ closurePc' = "done"
  /\ UNCHANGED <<operationDefinition, fragments, seenFragmentNames,
                 allDefinitions, defintionsToSearch, docVars, getterVars,
                 projectVars>>

MaxSpreads == 2

FragmentNames == {"F1", "F2"}
SpreadNames == FragmentNames \cup {"Missing"}

\* the selection sets the closure documents are built from
ClosureSelections ==
  SeqsUpTo({FragmentSpread(n) : n \in SpreadNames}, MaxSpreads)
ShortClosureSelections ==
  SeqsUpTo({FragmentSpread(n) : n \in SpreadNames}, MaxSpreads - 1)

\* the same spreads, all but the first wrapped in a field
Nested(sels) ==
  IF Len(sels) < 2 THEN <<Field("f", <<>>, sels)>>
  ELSE <<Field("f", <<>>, Tail(sels)), Head(sels)>>

DefaultConfig ==
  [graph |-> NoName, engineClient |-> FALSE,
   client |-> [clientOnlyDirectives |-> [defined |-> FALSE, names |-> <<>>],
               clientSchemaDirectives |-> [defined |-> FALSE, names |-> <<>>],
               addTypename |-> FALSE]]

ClosureStores ==
  { [u \in Range(URIs) |->
       IF u = "a.graphql"
       THEN <<[ast |-> Document(<<OperationDefinition("Q", so)>>)]>>
       ELSE <<[ast |-> Document(<<FragmentDefinition("F1", s1),
                                  FragmentDefinition("F2", s2)>>)]>>] :
    so \in ClosureSelections \cup {Nested(s) : s \in ClosureSelections},
    s1 \in ClosureSelections, s2 \in ShortClosureSelections }

GetterIdle == getterResult = [call |-> "none", threw |-> FALSE, value |-> <<>>]

(***************************************************************************)
(* Values of the project's fields                                          *)
(***************************************************************************)
\* a GraphQLSchema as the provider hands it out; "<none>" stands for undefined
NoServiceSchema ==
  [name |-> "<none>", directives |-> {}, types |-> {}, fields |-> {},
   hasASTNodes |-> FALSE]

\* this.schema: the service schema itself, or extendSchema's result, which
\* holds the two parts of the clientSchema document it was built from
NoSchema ==
  [service |-> NoServiceSchema, composed |-> FALSE, extension |-> <<>>,
   injected |-> <<>>, localFields |-> <<>>]

NoError == [thrown |-> FALSE, graphql |-> FALSE, source |-> NoName]

\* what a schema load keeps of the two fields as they are at the call
SchemaState(service, sch) == [serviceSchema |-> service, schema |-> sch]

NoLoad == [pc |-> "idle", before |-> SchemaState(NoServiceSchema, NoSchema)]

\* the project's own fields where a specification leaves them untouched
ProjectIdle ==
  /\ serviceSchema = NoServiceSchema
  /\ schema = NoSchema
  /\ handlers = {}
  /\ fieldLatenciesMS = [defined |-> FALSE, stats |-> <<>>]
  /\ frontendUrlRoot = NoName
  /\ lastLoadDate = 0
  /\ diagnosticSet = <<>>
  /\ schemaLoad = NoLoad
  /\ engineLoad = [pc |-> "idle",
                   before |-> [fieldLatenciesMS |-> [defined |-> FALSE, stats |-> <<>>],
                               frontendUrlRoot |-> NoName, lastLoadDate |-> 0]]
  /\ lastStep = [name |-> "constructor", caught |-> NoError]
  /\ calls = <<>>

EmptyStore == [u \in Range(URIs) |-> <<>>]

ClosureIdle ==
  /\ closurePc = "idle"
  /\ operationDefinition = OperationDefinition(NoName, <<>>)
  /\ fragments = <<>>
  /\ seenFragmentNames = {}
  /\ allDefinitions = <<>>
  /\ defintionsToSearch = <<>>

\* the state after construction: no file has been scanned yet
InitClosure ==
  /\ documentsByFile = EmptyStore
  /\ config = DefaultConfig
  /\ ClosureIdle
  /\ GetterIdle
  /\ ProjectIdle

\* initialize(): scanAllIncludedFiles fills the document store
ScanClosureFiles ==
  /\ documentsByFile = EmptyStore
  /\ documentsByFile' \in ClosureStores
  /\ UNCHANGED <<config, closureVars, getterVars, projectVars>>

NextClosure ==
  \/ ScanClosureFiles
  \/ CallGetOperationWithFragments
  \/ SearchDefinition
  \/ ReturnAllDefinitions

SpecClosure == InitClosure /\ [][NextClosure]_vars

FairClosure ==
  InitClosure /\ [][NextClosure]_vars
  /\ WF_vars(SearchDefinition) /\ WF_vars(ReturnAllDefinitions)

(***************************************************************************)
(* The registry getters and the service-document projector                 *)
(***************************************************************************)
\* an optional configuration list: undefined, or a list of names
Undefined == [defined |-> FALSE, names |-> <<>>]
Defined(names) == [defined |-> TRUE, names |-> names]

\* the keys of an object filled by assigning each definition under its
\* name: a key keeps the place of its first assignment
RECURSIVE KeysInOrder(_, _)
KeysInOrder(defs, acc) ==
  IF defs = <<>> THEN acc
  ELSE KeysInOrder(Tail(defs),
         IF Head(defs).name \in Range(acc) THEN acc
         ELSE Append(acc, Head(defs).name))

IsFragmentDefinition(d) == d.kind = "FragmentDefinition"
IsOperationDefinition(d) == d.kind = "OperationDefinition"

\* Object.values(this.fragments)
FragmentValues(byFile) ==
  LET keys == KeysInOrder(SelectSeq(AllDefinitionNodes(byFile), IsFragmentDefinition), <<>>)
  IN [i \in DOMAIN keys |-> Fragments(byFile)[keys[i]]]

Put(map, d) == [n \in DOMAIN map \cup {d.name} |-> IF n = d.name THEN d ELSE map[n]]

\* mutant: an anonymous operation is skipped, the named ones are kept
RECURSIVE OperationsFromSkipping(_, _)
OperationsFromSkipping(defs, acc) ==
  IF defs = <<>> THEN [threw |-> FALSE, value |-> acc]
  ELSE LET d == Head(defs) IN
       IF d.kind = "OperationDefinition" /\ d.name # NoName
       THEN OperationsFromSkipping(Tail(defs), Put(acc, d))
       ELSE OperationsFromSkipping(Tail(defs), acc)

OperationsSkippingAnonymous(byFile) ==
  OperationsFromSkipping(AllDefinitionNodes(byFile), <<>>)

\* the scan of get operations(): the throw leaves the loops and the getter
RECURSIVE OperationsFrom(_, _)
OperationsFrom(defs, acc) ==
  IF defs = <<>> THEN [threw |-> FALSE, value |-> acc]
  ELSE LET d == Head(defs) IN
       IF d.kind = "OperationDefinition"
       THEN IF d.name = NoName
            THEN [threw |-> TRUE, value |-> <<>>]
            ELSE OperationsFrom(Tail(defs), Put(acc, d))
       ELSE OperationsFrom(Tail(defs), acc)

\* get operations()
Operations(byFile) == OperationsFrom(AllDefinitionNodes(byFile), <<>>)

\* Object.values(this.operations), when the getter returned
OperationValues(byFile) ==
  LET keys == KeysInOrder(SelectSeq(AllDefinitionNodes(byFile), IsOperationDefinition), <<>>)
  IN [i \in DOMAIN keys |-> Operations(byFile).value[keys[i]]]

\* graphql separateOperations: the fragments a definition depends on
RECURSIVE TransitiveDependencies(_, _, _)
TransitiveDependencies(from, collected, depGraph) ==
  LET immediate == {n \in Range(from) : n \in DOMAIN depGraph /\ n \notin collected}
  IN IF immediate = {} THEN collected
     ELSE TransitiveDependencies(
            Flatten([i \in DOMAIN from |->
                       IF from[i] \in immediate THEN depGraph[from[i]] ELSE <<>>]),
            collected \cup immediate, depGraph)

\* graphql separateOperations: one document per operation, holding the
\* operation and the fragments it depends on, in the order of the input
SeparateOperations(definitions) ==
  LET frags == SelectSeq(definitions, IsFragmentDefinition)
      depGraph == [n \in {frags[i].name : i \in DOMAIN frags} |->
                     FragmentSpreadsIn(
                       (CHOOSE d \in Range(frags) : d.name = n).selections)]
      ops == SelectSeq(definitions, IsOperationDefinition)
  IN [n \in {ops[i].name : i \in DOMAIN ops} |->
        LET op == CHOOSE d \in Range(ops) : d.name = n
            deps == TransitiveDependencies(FragmentSpreadsIn(op.selections), {}, depGraph)
            Kept(d) == d = op \/ (d.kind = "FragmentDefinition" /\ d.name \in deps)
        IN Document(SelectSeq(definitions, Kept))]

\* get mergedOperationsAndFragments()
MergedOperationsAndFragments(byFile) ==
  IF Operations(byFile).threw THEN [threw |-> TRUE, value |-> <<>>]
  ELSE [threw |-> FALSE,
        value |-> SeparateOperations(FragmentValues(byFile) \o OperationValues(byFile))]

\* ---- ../utilities/graphql ------------------------------------------------
RECURSIVE StripDirectives(_, _)
StripDirectives(selections, names) ==
  [i \in DOMAIN selections |->
     LET s == selections[i]
         NotNamed(d) == d \notin Range(names)
     IN [s EXCEPT !.directives = SelectSeq(s.directives, NotNamed),
                  !.selections = StripDirectives(s.selections, names)]]

\* removeDirectives: the directive annotations named are taken off every node
RemoveDirectives(document, directiveNames) ==
  IF directiveNames.names = <<>> THEN document
  ELSE [document EXCEPT !.definitions =
          [i \in DOMAIN document.definitions |->
             [document.definitions[i] EXCEPT !.selections =
                StripDirectives(document.definitions[i].selections,
                                directiveNames.names)]]]

RECURSIVE DropAnnotatedFields(_, _)
DropAnnotatedFields(selections, names) ==
  IF selections = <<>> THEN <<>>
  ELSE LET s == Head(selections)
           rest == DropAnnotatedFields(Tail(selections), names)
       IN IF s.kind = "Field" /\ Range(s.directives) \cap Range(names) # {}
          THEN rest
          ELSE <<[s EXCEPT !.selections = DropAnnotatedFields(s.selections, names)]>>
               \o rest

HasSelections(d) == d.selections # <<>>

\* removeDirectiveAnnotatedFields: every field carrying one of the
\* directives goes as a whole; a definition left without selections goes too
RemoveDirectiveAnnotatedFields(document, directiveNames) ==
  IF directiveNames.names = <<>> THEN document
  ELSE [document EXCEPT !.definitions =
          SelectSeq(
            [i \in DOMAIN document.definitions |->
               [document.definitions[i] EXCEPT !.selections =
                  DropAnnotatedFields(document.definitions[i].selections,
                                      directiveNames.names)]],
            HasSelections)]

TypenameField == Field("__typename", <<>>, <<>>)

HasTypename(selections) ==
  \E i \in DOMAIN selections :
    selections[i].kind = "Field" /\ selections[i].name = "__typename"

RECURSIVE AddTypename(_)
AddTypename(selections) ==
  IF selections = <<>> THEN <<>>
  ELSE LET inner == [i \in DOMAIN selections |->
                       [selections[i] EXCEPT !.selections =
                          AddTypename(selections[i].selections)]]
       IN IF HasTypename(selections) THEN inner ELSE <<TypenameField>> \o inner

\* withTypenameFieldAddedWhereNeeded: every selection set that lacks a
\* typename selection gets one
WithTypenameFieldAddedWhereNeeded(document) ==
  [document EXCEPT !.definitions =
     [i \in DOMAIN document.definitions |->
        [document.definitions[i] EXCEPT !.selections =
           AddTypename(document.definitions[i].selections)]]]

\* `!list || !list.length`
NoneConfigured(list) == ~list.defined \/ Len(list.names) = 0

\* lines 518-521: directives are stripped first, then annotated fields go
ServiceOnly(document, client) ==
  RemoveDirectiveAnnotatedFields(
    RemoveDirectives(document, client.clientOnlyDirectives),
    client.clientSchemaDirectives)

\* mutant: addTypename is not honoured
MergedForServiceWithoutTypename(byFile, client) ==
  LET current == MergedOperationsAndFragments(byFile)
  IN IF current.threw THEN current
     ELSE IF /\ NoneConfigured(client.clientOnlyDirectives)
             /\ NoneConfigured(client.clientSchemaDirectives)
     THEN current
     ELSE LET filtered(n) == ServiceOnly(current.value[n], client)
          IN [threw |-> FALSE,
              value |-> [n \in {m \in DOMAIN current.value :
                                  Len(filtered(m).definitions) # 0} |-> filtered(n)]]

\* mutant: no short-circuit when no directive list is configured
MergedForServiceNoShortCircuit(byFile, client) ==
  LET current == MergedOperationsAndFragments(byFile)
  IN IF current.threw THEN current
     ELSE LET filtered(n) ==
                IF client.addTypename
                THEN WithTypenameFieldAddedWhereNeeded(ServiceOnly(current.value[n], client))
                ELSE ServiceOnly(current.value[n], client)
          IN [threw |-> FALSE,
              value |-> [n \in {m \in DOMAIN current.value :
                                  Len(filtered(m).definitions) # 0} |-> filtered(n)]]

\* get mergedOperationsAndFragmentsForService()
MergedOperationsAndFragmentsForService(byFile, client) ==
  LET current == MergedOperationsAndFragments(byFile)
  IN IF current.threw THEN current
     ELSE IF /\ NoneConfigured(client.clientOnlyDirectives)
             /\ NoneConfigured(client.clientSchemaDirectives)
     THEN current
     ELSE LET filtered(n) ==
                IF client.addTypename
                THEN WithTypenameFieldAddedWhereNeeded(ServiceOnly(current.value[n], client))
                ELSE ServiceOnly(current.value[n], client)
          IN [threw |-> FALSE,
              value |-> [n \in {m \in DOMAIN current.value :
                                  Len(filtered(m).definitions) # 0} |-> filtered(n)]]

GetOperations ==
  /\ documentsByFile # EmptyStore
  /\ getterResult' = [call |-> "operations",
                      threw |-> Operations(documentsByFile).threw,
                      value |-> Operations(documentsByFile).value]
  /\ UNCHANGED <<docVars, closureVars, projectVars>>

GetMergedOperationsAndFragmentsForService ==
  /\ documentsByFile # EmptyStore
  /\ LET r == MergedOperationsAndFragmentsForService(documentsByFile, config.client)
     IN getterResult' = [call |-> "mergedOperationsAndFragmentsForService",
                         threw |-> r.threw, value |-> r.value]
  /\ UNCHANGED <<docVars, closureVars, projectVars>>

MaxFields == 2

\* the selections the service documents are built from
ServiceItems ==
  { Field("a", <<>>, <<>>),
    Field("b", <<"client">>, <<>>),
    Field("c", <<"connection">>, <<>>),
    Field("d", <<>>, <<Field("__typename", <<>>, <<>>), Field("e", <<"client">>, <<>>)>>),
    FragmentSpread("F") }

ServiceSelections == SeqsUpTo(ServiceItems, MaxFields) \ {<<>>}

\* what stands next to the operation Q in its document
SecondDefinitions(q) ==
  { <<q>>,
    <<q, OperationDefinition("R", <<Field("a", <<>>, <<>>)>>)>>,
    <<q, OperationDefinition("R", <<Field("b", <<"client">>, <<>>)>>)>>,
    <<q, OperationDefinition(NoName, <<Field("a", <<>>, <<>>)>>)>>,
    <<OperationDefinition(NoName, <<Field("a", <<>>, <<>>)>>), q>> }

\* the documents of the second file
OtherFiles ==
  { <<>>,
    <<[ast |-> NoAST]>>,
    <<[ast |-> Document(<<FragmentDefinition("F", <<Field("a", <<>>, <<>>)>>)>>)]>>,
    <<[ast |-> Document(<<FragmentDefinition("F", <<Field("b", <<"client">>, <<>>)>>)>>)]>>,
    <<[ast |-> NoAST],
      [ast |-> Document(<<FragmentDefinition("F", <<Field("c", <<"connection">>, <<>>)>>)>>)]>>,
    <<[ast |-> Document(<<OperationDefinition(NoName, <<Field("a", <<>>, <<>>)>>)>>)]>> }

ServiceStores ==
  { [u \in Range(URIs) |->
       IF u = "a.graphql" THEN <<[ast |-> Document(defs)]>> ELSE other] :
    defs \in UNION {SecondDefinitions(OperationDefinition("Q", sq)) :
                      sq \in ServiceSelections},
    other \in OtherFiles }

ClientConfigs ==
  [clientOnlyDirectives : {Undefined, Defined(<<>>), Defined(<<"connection">>),
                           Defined(<<"client", "connection">>)},
   clientSchemaDirectives : {Undefined, Defined(<<>>), Defined(<<"client">>)},
   addTypename : BOOLEAN]

InitService ==
  /\ documentsByFile = EmptyStore
  /\ config \in [graph : {NoName}, engineClient : {FALSE}, client : ClientConfigs]
  /\ ClosureIdle
  /\ GetterIdle
  /\ ProjectIdle

ScanServiceFiles ==
  /\ documentsByFile = EmptyStore
  /\ documentsByFile' \in ServiceStores
  /\ UNCHANGED <<config, closureVars, getterVars, projectVars>>

NextService ==
  \/ ScanServiceFiles
  \/ GetOperations
  \/ GetMergedOperationsAndFragmentsForService

SpecService == InitService /\ [][NextService]_vars

(***************************************************************************)
(* The project: schema composition                                         *)
(***************************************************************************)
\* type-system definitions; an extension keeps its field definitions in
\* `selections`
DirectiveDefinition(n) ==
  [kind |-> "DirectiveDefinition", name |-> n, selections |-> <<>>]
ObjectTypeExtension(t, fieldNames) ==
  [kind |-> "ObjectTypeExtension", name |-> t,
   selections |-> [i \in DOMAIN fieldNames |-> Field(fieldNames[i], <<>>, <<>>)]]

IsDirectiveDefinitionNode(d) == d.kind = "DirectiveDefinition"
IsTypeSystemNode(d) == d.kind \in {"DirectiveDefinition", "ObjectTypeExtension"}

\* base: get typeSystemDefinitionsAndExtensions()
TypeSystemDefinitionsAndExtensions(byFile) ==
  SelectSeq(AllDefinitionNodes(byFile), IsTypeSystemNode)

\* ./defaultClientSchema: apolloClientSchemaDocument.ast.definitions
ApolloClientSchemaDefinitions ==
  <<DirectiveDefinition("connection"), DirectiveDefinition("client"),
    DirectiveDefinition("export")>>

NamesOf(defs) == {defs[i].name : i \in DOMAIN defs}

\* mutant: only the library directives that collide are left out
MissingDirectivesPerName(service, byFile) ==
  LET existingDirectives ==
        (IF service # NoServiceSchema THEN service.directives ELSE {})
        \cup NamesOf(SelectSeq(TypeSystemDefinitionsAndExtensions(byFile),
                               IsDirectiveDefinitionNode))
      Free(d) == d.name \notin existingDirectives
  IN SelectSeq(ApolloClientSchemaDefinitions, Free)

\* get missingApolloClientDirectives()
MissingApolloClientDirectives(service, byFile) ==
  LET serviceDirectives == IF service # NoServiceSchema THEN service.directives ELSE {}
      clientDirectives ==
        NamesOf(SelectSeq(TypeSystemDefinitionsAndExtensions(byFile),
                          IsDirectiveDefinitionNode))
      existingDirectives == serviceDirectives \cup clientDirectives
      apolloDirectives ==
        NamesOf(SelectSeq(ApolloClientSchemaDefinitions, IsDirectiveDefinitionNode))
  IN IF \E existingDirective \in existingDirectives :
          existingDirective \in apolloDirectives
     THEN <<>>
     ELSE ApolloClientSchemaDefinitions

\* augmentSchemaWithGeneratedSDLIfNeeded: a schema without AST nodes is
\* printed and rebuilt, which gives it AST nodes
AugmentSchemaWithGeneratedSDLIfNeeded(s) ==
  IF s.hasASTNodes THEN s ELSE [s EXCEPT !.hasASTNodes = TRUE]

\* graphql extendSchema rejects an extension of a type the schema lacks and
\* a directive that is defined twice
ExtendSchemaThrows(service, definitions) ==
  \/ \E i \in DOMAIN definitions :
       \/ definitions[i].kind = "ObjectTypeExtension"
            /\ definitions[i].name \notin service.types
       \/ definitions[i].kind = "DirectiveDefinition"
            /\ definitions[i].name \in service.directives
  \/ \E i, j \in DOMAIN definitions :
       /\ i # j
       /\ definitions[i].kind = "DirectiveDefinition"
       /\ definitions[j].kind = "DirectiveDefinition"
       /\ definitions[i].name = definitions[j].name

\* extendSchema(this.serviceSchema, this.clientSchema), when it returns
ExtendSchema(service, byFile) ==
  [service |-> service, composed |-> TRUE,
   extension |-> TypeSystemDefinitionsAndExtensions(byFile),
   injected |-> MissingApolloClientDirectives(service, byFile),
   localFields |-> <<>>]

\* get clientSchema(): the definitions of the document
ClientSchemaDefinitions(service, byFile) ==
  TypeSystemDefinitionsAndExtensions(byFile)
    \o MissingApolloClientDirectives(service, byFile)

\* this.schema = this.serviceSchema
BareSchema(service) ==
  [service |-> service, composed |-> FALSE, extension |-> <<>>,
   injected |-> <<>>, localFields |-> <<>>]

FieldNames(selections) == [i \in DOMAIN selections |-> selections[i].name]

\* addClientMetadataToSchemaNodes: each extension of a type the schema has
\* appends its field names to that type's localFields
RECURSIVE LocalFieldsFrom(_, _, _)
LocalFieldsFrom(definitions, types, acc) ==
  IF definitions = <<>> THEN acc
  ELSE LET node == Head(definitions) IN
       LocalFieldsFrom(Tail(definitions), types,
         IF node.kind = "ObjectTypeExtension" /\ node.name \in types
         THEN [t \in DOMAIN acc \cup {node.name} |->
                 IF t = node.name
                 THEN (IF t \in DOMAIN acc THEN acc[t] ELSE <<>>)
                      \o FieldNames(node.selections)
                 ELSE acc[t]]
         ELSE acc)

AddClientMetadataToSchemaNodes(sch) ==
  [sch EXCEPT !.localFields =
     LocalFieldsFrom(sch.extension \o sch.injected, sch.service.types, sch.localFields)]

\* the fields a document may select under the schema
KnownFields(sch) ==
  sch.service.fields \cup
  UNION {Range(FieldNames(sch.extension[i].selections)) :
           i \in {k \in DOMAIN sch.extension :
                    sch.extension[k].kind = "ObjectTypeExtension"}}

(***************************************************************************)
(* The project: diagnostics and decorations                                *)
(***************************************************************************)
Diagnostic(message, name) ==
  [severity |-> "Error", source |-> "Validation", message |-> message, name |-> name]

\* ../diagnostics: diagnosticsFromError(error, DiagnosticSeverity.Error, "Validation")
DiagnosticsFromError(error) == <<Diagnostic("composition", error.source)>>

RECURSIVE SelectionDiagnostics(_, _, _)
SelectionDiagnostics(selections, sch, registry) ==
  IF selections = <<>> THEN <<>>
  ELSE LET s == Head(selections) IN
       (IF s.kind = "FragmentSpread"
        THEN (IF s.name \in DOMAIN registry THEN <<>>
              ELSE <<Diagnostic("unknown fragment", s.name)>>)
        ELSE (IF s.name \in KnownFields(sch) THEN <<>>
              ELSE <<Diagnostic("unknown field", s.name)>>)
             \o SelectionDiagnostics(s.selections, sch, registry))
       \o SelectionDiagnostics(Tail(selections), sch, registry)

IsExecutableNode(d) == d.kind \in {"OperationDefinition", "FragmentDefinition"}

\* ../diagnostics: collectExecutableDefinitionDiagnositics -- a document
\* without AST yields nothing; fragments are resolved in the whole registry
CollectExecutableDefinitionDiagnositics(sch, document, registry) ==
  IF document.ast = NoAST THEN <<>>
  ELSE LET defs == SelectSeq(document.ast.definitions, IsExecutableNode)
       IN Flatten([i \in DOMAIN defs |->
                     SelectionDiagnostics(defs[i].selections, sch, registry)])

\* ../diagnostics: DiagnosticSet.addDiagnostics -- a new uri gets an entry
\* at the end, a known uri has the diagnostics appended to its entry
AddDiagnostics(set, uri, diagnostics) ==
  IF \E i \in DOMAIN set : set[i].uri = uri
  THEN [i \in DOMAIN set |->
          IF set[i].uri = uri
          THEN [set[i] EXCEPT !.diagnostics = @ \o diagnostics]
          ELSE set[i]]
  ELSE Append(set, [uri |-> uri, diagnostics |-> diagnostics])

\* getOperationWithFragments as one call
RECURSIVE SearchAll(_, _)
SearchAll(st, registry) ==
  IF st.queue = <<>> THEN st.all
  ELSE SearchAll(
         VisitDefinition([st EXCEPT !.queue = Tail(st.queue)],
                         FragmentSpreadsIn(Head(st.queue).selections), registry),
         registry)

GetOperationWithFragments(op, registry) ==
  SearchAll([seen |-> {}, all |-> <<op>>, queue |-> <<op>>], registry)

NoLatencies == [defined |-> FALSE, stats |-> <<>>]

Decoration(type, uri, target, message) ==
  [type |-> type, document |-> uri, target |-> target, message |-> message]

\* lines 376-393: a field under a known parent type whose latency is > 1
FieldDecorations(uri, selections, parentName, latencies) ==
  Flatten([i \in DOMAIN selections |->
    LET node == selections[i]
        known == /\ node.kind = "Field"
                 /\ parentName # NoName
                 /\ latencies.defined
                 /\ parentName \in DOMAIN latencies.stats
                 /\ node.name \in DOMAIN latencies.stats[parentName]
    IN IF known /\ latencies.stats[parentName][node.name] > 1
       THEN <<Decoration("text", uri, node.name, latencies.stats[parentName][node.name])>>
       ELSE <<>>])

\* lines 394-446: the link of an operation, over its closure
RunGlyph(uri, node, registry, root, cfg) ==
  Decoration("runGlyph", uri, node.name,
    [root |-> IF root = NoName THEN "https://studio.apollographql.com" ELSE root,
     path |-> IF cfg.graph # NoName THEN "/graph/explorer" ELSE "/sandbox/explorer",
     document |-> FieldNames(GetOperationWithFragments(node, registry))])

DocumentDecorations(uri, document, sch, registry, latencies, root, cfg) ==
  IF document.ast = NoAST THEN <<>>
  ELSE Flatten([i \in DOMAIN document.ast.definitions |->
         LET node == document.ast.definitions[i]
         IN IF node.kind = "OperationDefinition"
            THEN <<RunGlyph(uri, node, registry, root, cfg)>>
                 \o FieldDecorations(uri, node.selections,
                      IF "Query" \in sch.service.types THEN "Query" ELSE NoName,
                      latencies)
            ELSE <<>>])

Decorations(byFile, sch, latencies, root, cfg) ==
  Flatten([u \in DOMAIN URIs |->
    Flatten([i \in DOMAIN byFile[URIs[u]] |->
      DocumentDecorations(URIs[u], byFile[URIs[u]][i], sch, Fragments(byFile),
                          latencies, root, cfg)])])

Call(handler, uri, payload) == [handler |-> handler, uri |-> uri, payload |-> payload]

\* generateDecorations(): the callbacks it makes
GenerateDecorations(byFile, sch, registered, latencies, root, cfg) ==
  IF "onDecorations" \notin registered \/ sch = NoSchema THEN <<>>
  ELSE <<Call("onDecorations", NoName, Decorations(byFile, sch, latencies, root, cfg))>>

(***************************************************************************)
(* The project: validate()                                                 *)
(***************************************************************************)
\* mutant: a pass goes on filling the set of the pass before
DiagnosticSetKept(previous) == previous

\* line 289: new DiagnosticSet()
NewDiagnosticSet(previous) == <<>>

\* lines 295-305: a GraphQLError with a source name becomes a diagnostic on
\* that uri, any other error is only logged
CaughtDiagnostics(set, error) ==
  IF error.graphql /\ error.source # NoName
  THEN AddDiagnostics(set, error.source, DiagnosticsFromError(error))
  ELSE set

\* mutant: after a failed composition the schema of the pass before stays
SchemaKeptAfterCatch(service, previous) == previous

\* line 306: this.schema = this.serviceSchema
SchemaAfterCatch(service, previous) == BareSchema(service)

RECURSIVE ValidateDocumentsOfFile(_, _, _, _, _)
ValidateDocumentsOfFile(set, uri, documentsForFile, sch, registry) ==
  IF documentsForFile = <<>> THEN set
  ELSE ValidateDocumentsOfFile(
         AddDiagnostics(set, uri,
           CollectExecutableDefinitionDiagnositics(sch, Head(documentsForFile), registry)),
         uri, Tail(documentsForFile), sch, registry)

\* lines 311-323: every document of every file, file by file
RECURSIVE ValidateFiles(_, _, _, _, _)
ValidateFiles(set, uris, byFile, sch, registry) ==
  IF uris = <<>> THEN set
  ELSE ValidateFiles(
         ValidateDocumentsOfFile(set, Head(uris), byFile[Head(uris)], sch, registry),
         Tail(uris), byFile, sch, registry)

\* lines 324-326: one onDiagnostics per entry of the set
DeliverDiagnostics(set) ==
  [i \in DOMAIN set |-> Call("onDiagnostics", set[i].uri, set[i].diagnostics)]

\* the error objects extendSchema may throw
CompositionErrors ==
  { [thrown |-> TRUE, graphql |-> TRUE, source |-> "b.graphql"],
    [thrown |-> TRUE, graphql |-> TRUE, source |-> "graphql-schema:/schema.graphql"],
    [thrown |-> TRUE, graphql |-> TRUE, source |-> NoName],
    [thrown |-> TRUE, graphql |-> FALSE, source |-> NoName] }

Step(name, caught) == [name |-> name, caught |-> caught]

\* one pass from line 289 on; `error` is what extendSchema throws if it throws
ValidationPass(error) ==
  LET throws == ExtendSchemaThrows(serviceSchema,
                  ClientSchemaDefinitions(serviceSchema, documentsByFile))
      sch == IF throws THEN SchemaAfterCatch(serviceSchema, schema)
             ELSE AddClientMetadataToSchemaNodes(
                    ExtendSchema(serviceSchema, documentsByFile))
      set0 == IF throws
              THEN CaughtDiagnostics(NewDiagnosticSet(diagnosticSet), error)
              ELSE NewDiagnosticSet(diagnosticSet)
      set == ValidateFiles(set0, URIs, documentsByFile, sch,
                           Fragments(documentsByFile))
  IN /\ schema' = sch
     /\ diagnosticSet' = set
     /\ calls' = DeliverDiagnostics(set)
                 \o GenerateDecorations(documentsByFile, sch, handlers,
                      fieldLatenciesMS, frontendUrlRoot, config)
     /\ lastStep' = Step("validate", IF throws THEN error ELSE NoError)

Validate ==
  /\ IF "onDiagnostics" \notin handlers \/ serviceSchema = NoServiceSchema
     THEN /\ lastStep' = Step("other", NoError)
          /\ calls' = <<>>
          /\ UNCHANGED <<schema, diagnosticSet>>
     ELSE IF ExtendSchemaThrows(serviceSchema,
               ClientSchemaDefinitions(serviceSchema, documentsByFile))
     THEN \E error \in CompositionErrors : ValidationPass(error)
     ELSE ValidationPass(NoError)
  /\ UNCHANGED <<serviceSchema, handlers, fieldLatenciesMS, frontendUrlRoot,
                 lastLoadDate, schemaLoad, engineLoad, docVars, closureVars, getterVars>>

(***************************************************************************)
(* The project: loads                                                      *)
(***************************************************************************)
\* what the schema provider may resolve to
ProviderSchemas ==
  { [name |-> "S1", directives |-> {"skip", "include", "deprecated"},
     types |-> {"Query"}, fields |-> {"a"}, hasASTNodes |-> TRUE],
    [name |-> "S2", directives |-> {"skip", "include", "deprecated", "client"},
     types |-> {"Query"}, fields |-> {"a", "x"}, hasASTNodes |-> FALSE] }

\* loadServiceSchema up to its await of schemaProvider.resolveSchema
LoadServiceSchema ==
  /\ schemaLoad.pc = "idle"
  /\ schemaLoad' = [pc |-> "resolveSchema",
                    before |-> SchemaState(serviceSchema, schema)]
  /\ lastStep' = Step("other", NoError)
  /\ calls' = <<>>
  /\ UNCHANGED <<serviceSchema, schema, handlers, fieldLatenciesMS, frontendUrlRoot,
                 lastLoadDate, diagnosticSet, engineLoad, docVars, closureVars,
                 getterVars>>

\* lines 202-209 after the provider resolved
ResolveSchemaFulfilled ==
  /\ schemaLoad.pc = "resolveSchema"
  /\ \E resolved \in ProviderSchemas :
       LET service == AugmentSchemaWithGeneratedSDLIfNeeded(resolved)
           throws == ExtendSchemaThrows(service,
                       ClientSchemaDefinitions(service, documentsByFile))
       IN /\ serviceSchema' = service
          /\ schema' = IF throws THEN schema ELSE ExtendSchema(service, documentsByFile)
          /\ lastStep' = Step("other", NoError)
  /\ schemaLoad' = NoLoad
  /\ calls' = <<>>
  /\ UNCHANGED <<handlers, fieldLatenciesMS, frontendUrlRoot, lastLoadDate,
                 diagnosticSet, engineLoad, docVars, closureVars, getterVars>>

\* the provider failed: neither assignment is reached
ResolveSchemaRejected ==
  /\ schemaLoad.pc = "resolveSchema"
  /\ schemaLoad' = [schemaLoad EXCEPT !.pc = "idle"]
  /\ lastStep' = Step("resolveSchema rejected", NoError)
  /\ calls' = <<>>
  /\ UNCHANGED <<serviceSchema, schema, handlers, fieldLatenciesMS, frontendUrlRoot,
                 lastLoadDate, diagnosticSet, engineLoad, docVars, closureVars,
                 getterVars>>

EngineState(latencies, root, date) ==
  [fieldLatenciesMS |-> latencies, frontendUrlRoot |-> root, lastLoadDate |-> date]

\* loadEngineData up to its first await (lines 334-345, or 349 without a
\* service id); `before` keeps the three fields as they are at the call
EngineLoadStarted(cfg, latencies, root, date) ==
  [pc |-> IF cfg.graph # NoName THEN "loadSchemaTagsAndFieldLatencies"
          ELSE "loadFrontendUrlRoot",
   before |-> EngineState(latencies, root, date)]

EngineLoadIdle(load) == [load EXCEPT !.pc = "idle"]

LoadEngineData ==
  /\ config.engineClient
  /\ engineLoad.pc = "idle"
  /\ engineLoad' = EngineLoadStarted(config, fieldLatenciesMS, frontendUrlRoot,
                                     lastLoadDate)
  /\ lastStep' = Step("other", NoError)
  /\ calls' = <<>>
  /\ UNCHANGED <<serviceSchema, schema, handlers, fieldLatenciesMS, frontendUrlRoot,
                 lastLoadDate, diagnosticSet, schemaLoad, docVars, closureVars,
                 getterVars>>

\* what the engine client may resolve to
LatencyValues ==
  { [defined |-> TRUE, stats |-> [Query |-> [a |-> 250, x |-> 1]]],
    [defined |-> TRUE, stats |-> [Query |-> [a |-> 1, x |-> 40]]] }

FrontendUrlRoots == {"https://studio.example"}

\* lines 346-349
LatenciesFulfilled ==
  /\ engineLoad.pc = "loadSchemaTagsAndFieldLatencies"
  /\ \E loaded \in LatencyValues : fieldLatenciesMS' = loaded
  /\ calls' = IF "onSchemaTags" \in handlers
              THEN <<Call("onSchemaTags", NoName, <<config.graph>>)>> ELSE <<>>
  /\ engineLoad' = [engineLoad EXCEPT !.pc = "loadFrontendUrlRoot"]
  /\ lastStep' = Step("other", NoError)
  /\ UNCHANGED <<serviceSchema, schema, handlers, frontendUrlRoot, lastLoadDate,
                 diagnosticSet, schemaLoad, docVars, closureVars, getterVars>>

\* mutant: the catch block forgets the latencies
EngineStateReset(state) == [state EXCEPT !.fieldLatenciesMS = NoLatencies]

\* lines 354-356: the catch block only logs
EngineStateAfterCatch(state) == state

EngineFieldsBecome(state) ==
  /\ fieldLatenciesMS' = state.fieldLatenciesMS
  /\ frontendUrlRoot' = state.frontendUrlRoot
  /\ lastLoadDate' = state.lastLoadDate

LatenciesRejected ==
  /\ engineLoad.pc = "loadSchemaTagsAndFieldLatencies"
  /\ EngineFieldsBecome(EngineStateAfterCatch(
       EngineState(fieldLatenciesMS, frontendUrlRoot, lastLoadDate)))
  /\ engineLoad' = EngineLoadIdle(engineLoad)
  /\ lastStep' = Step("loadSchemaTagsAndFieldLatencies rejected", NoError)
  /\ calls' = <<>>
  /\ UNCHANGED <<serviceSchema, schema, handlers, diagnosticSet, schemaLoad,
                 docVars, closureVars, getterVars>>

MaxLoads == 1

\* lines 350-353; the date is a clock that ticks with every load
FrontendUrlRootFulfilled ==
  /\ engineLoad.pc = "loadFrontendUrlRoot"
  /\ lastLoadDate < MaxLoads
  /\ \E root \in FrontendUrlRoots :
       /\ frontendUrlRoot' = root
       /\ calls' = GenerateDecorations(documentsByFile, schema, handlers,
                                       fieldLatenciesMS, root, config)
  /\ lastLoadDate' = lastLoadDate + 1
  /\ engineLoad' = EngineLoadIdle(engineLoad)
  /\ lastStep' = Step("other", NoError)
  /\ UNCHANGED <<serviceSchema, schema, handlers, fieldLatenciesMS, diagnosticSet,
                 schemaLoad, docVars, closureVars, getterVars>>

FrontendUrlRootRejected ==
  /\ engineLoad.pc = "loadFrontendUrlRoot"
  /\ EngineFieldsBecome(EngineStateAfterCatch(
       EngineState(fieldLatenciesMS, frontendUrlRoot, lastLoadDate)))
  /\ engineLoad' = EngineLoadIdle(engineLoad)
  /\ lastStep' = Step("loadFrontendUrlRoot rejected", NoError)
  /\ calls' = <<>>
  /\ UNCHANGED <<serviceSchema, schema, handlers, diagnosticSet, schemaLoad,
                 docVars, closureVars, getterVars>>

\* base onDiagnostics(handler), onDecorations(handler), onSchemaTags(handler)
RegisterHandler ==
  /\ \E h \in {"onDiagnostics", "onDecorations", "onSchemaTags"} \ handlers :
       handlers' = handlers \cup {h}
  /\ lastStep' = Step("other", NoError)
  /\ calls' = <<>>
  /\ UNCHANGED <<serviceSchema, schema, fieldLatenciesMS, frontendUrlRoot,
                 lastLoadDate, diagnosticSet, schemaLoad, engineLoad, docVars,
                 closureVars, getterVars>>

\* the document stores of the project specification
ProjectStores ==
  { [u \in Range(URIs) |->
       IF u = "a.graphql"
       THEN <<[ast |-> Document(<<OperationDefinition("Q", <<Field("a", <<>>, <<>>)>>)>>)]>>
       ELSE <<>>],
    [u \in Range(URIs) |->
       IF u = "a.graphql"
       THEN <<[ast |-> Document(<<OperationDefinition("Q",
                 <<Field("a", <<>>, <<>>), Field("localField", <<>>, <<>>),
                   FragmentSpread("F")>>)>>)],
              [ast |-> Document(<<ObjectTypeExtension("Query", <<"localField">>)>>)]>>
       ELSE <<[ast |-> Document(<<FragmentDefinition("F", <<Field("a", <<>>, <<>>)>>)>>)]>>],
    [u \in Range(URIs) |->
       IF u = "a.graphql"
       THEN <<[ast |-> Document(<<OperationDefinition("Q",
                 <<Field("localField", <<>>, <<>>), FragmentSpread("F")>>)>>)]>>
       ELSE <<[ast |-> NoAST],
              [ast |-> Document(<<ObjectTypeExtension("Missing", <<"m">>)>>)]>>],
    [u \in Range(URIs) |->
       IF u = "a.graphql"
       THEN <<[ast |-> Document(<<DirectiveDefinition("client"),
                                  OperationDefinition("Q", <<Field("a", <<>>, <<>>)>>)>>)]>>
       ELSE <<[ast |-> Document(<<OperationDefinition("Q2", <<Field("x", <<>>, <<>>)>>)>>)]>>] }

\* base documentDidChange / file scan: the store is replaced
DocumentsChanged ==
  /\ documentsByFile' \in ProjectStores \ {documentsByFile}
  /\ lastStep' = Step("other", NoError)
  /\ calls' = <<>>
  /\ UNCHANGED <<config, serviceSchema, schema, handlers, fieldLatenciesMS,
                 frontendUrlRoot, lastLoadDate, diagnosticSet, schemaLoad, engineLoad,
                 closureVars, getterVars>>

ProjectConfigs(engineClients) ==
  [graph : {NoName, "my-graph"}, engineClient : engineClients,
   client : {DefaultConfig.client}]

\* the state the constructor leaves: no document, no schema, no handler,
\* and loadEngineData already called (line 147)
Constructed ==
  /\ documentsByFile = EmptyStore
  /\ ClosureIdle
  /\ GetterIdle
  /\ serviceSchema = NoServiceSchema
  /\ schema = NoSchema
  /\ handlers = {}
  /\ fieldLatenciesMS = NoLatencies
  /\ frontendUrlRoot = NoName
  /\ lastLoadDate = 0
  /\ diagnosticSet = <<>>
  /\ schemaLoad = NoLoad
  /\ engineLoad = IF config.engineClient
                  THEN EngineLoadStarted(config, NoLatencies, NoName, 0)
                  ELSE [pc |-> "idle", before |-> EngineState(NoLatencies, NoName, 0)]
  /\ lastStep = Step("constructor", NoError)
  /\ calls = <<>>

\* a project without engine client: documents, schema loads, validation
Init ==
  /\ config \in ProjectConfigs({FALSE})
  /\ Constructed

Next ==
  \/ RegisterHandler
  \/ DocumentsChanged
  \/ LoadServiceSchema
  \/ ResolveSchemaFulfilled
  \/ ResolveSchemaRejected
  \/ Validate

Spec == Init /\ [][Next]_vars

\* a project with an engine client: the files are scanned once, then the
\* schema and engine loads run
InitLoads ==
  /\ config \in ProjectConfigs({TRUE})
  /\ Constructed

ScanProjectFiles ==
  /\ documentsByFile = EmptyStore
  /\ documentsByFile' \in ProjectStores
  /\ lastStep' = Step("other", NoError)
  /\ calls' = <<>>
  /\ UNCHANGED <<config, serviceSchema, schema, handlers, fieldLatenciesMS,
                 frontendUrlRoot, lastLoadDate, diagnosticSet, schemaLoad, engineLoad,
                 closureVars, getterVars>>

NextLoads ==
  \/ ScanProjectFiles
  \/ RegisterHandler
  \/ LoadServiceSchema
  \/ ResolveSchemaFulfilled
  \/ ResolveSchemaRejected
  \/ LoadEngineData
  \/ LatenciesFulfilled
  \/ LatenciesRejected
  \/ FrontendUrlRootFulfilled
  \/ FrontendUrlRootRejected

SpecLoads == InitLoads /\ [][NextLoads]_vars

(***************************************************************************)
(* Claims about getOperationWithFragments                                  *)
(***************************************************************************)
Occurrences(seq, x) == Cardinality({i \in DOMAIN seq : seq[i] = x})

NoDefinitionTwice ==
  closurePc # "idle" =>
    /\ Occurrences(allDefinitions, operationDefinition) = 1
    /\ \A i, j \in DOMAIN allDefinitions :
         i # j => allDefinitions[i] # allDefinitions[j]

\* C1: every call of getOperationWithFragments returns, also when the
\* fragment spreads form a cycle or a fragment spreads itself, and at no
\* point of the call does the result list hold the operation more or less
\* than once or any definition twice.
C1_TerminatesWithoutDuplicates ==
  /\ []NoDefinitionTwice
  /\ (closurePc = "loop") ~> (closurePc = "done")

SpreadsOfFragment(n) ==
  FragmentSpreadsIn(fragments[n].selections)

\* a call has returned on a registry with the cycle F1 -> F2 -> F1 where F1
\* also spreads itself
C1_Witness ==
  /\ closurePc = "done"
  /\ Len(allDefinitions) = 3
  /\ SpreadsOfFragment("F1") = <<"F1", "F2">>
  /\ SpreadsOfFragment("F2") = <<"F1">>

\* the fragments reachable from a definition through spreads that name a
\* key of the registry: the least set closed under "is spread by"
RECURSIVE ReachableFrom(_, _, _)
ReachableFrom(found, op, registry) ==
  LET next == found \cup
        {n \in DOMAIN registry :
           \/ n \in Range(FragmentSpreadsIn(op.selections))
           \/ \E m \in found : n \in Range(FragmentSpreadsIn(registry[m].selections))}
  IN IF next = found THEN found ELSE ReachableFrom(next, op, registry)

\* the first place where a result names fragment n: <<index of the
\* spreading definition in the result, index of the spread within it>>
Discoveries(result, n) ==
  {<<k, p>> : k \in DOMAIN result, p \in 1..MaxSpreads + 1} \cap
  {kp \in (DOMAIN result) \X (1..MaxSpreads + 1) :
     LET sp == FragmentSpreadsIn(result[kp[1]].selections)
     IN kp[2] \in DOMAIN sp /\ sp[kp[2]] = n}

LexLess(a, b) == a[1] < b[1] \/ (a[1] = b[1] /\ a[2] < b[2])

FirstDiscovery(result, n) ==
  CHOOSE a \in Discoveries(result, n) :
    \A b \in Discoveries(result, n) : a = b \/ LexLess(a, b)

BreadthFirstOrder(result) ==
  /\ \A j \in 2..Len(result) :
       /\ Discoveries(result, result[j].name) # {}
       /\ FirstDiscovery(result, result[j].name)[1] < j
  /\ \A i, j \in 2..Len(result) :
       i < j => LexLess(FirstDiscovery(result, result[i].name),
                        FirstDiscovery(result, result[j].name))

SomeOperationIsAnonymous ==
  \E u \in Range(URIs) : \E i \in DOMAIN documentsByFile[u] :
    /\ documentsByFile[u][i].ast # NoAST
    /\ \E k \in DOMAIN documentsByFile[u][i].ast.definitions :
         LET d == documentsByFile[u][i].ast.definitions[k]
         IN d.kind = "OperationDefinition" /\ d.name = NoName

\* C4: when any document with an AST holds an operation definition without
\* a name, the operations getter throws and hands back no map, wherever the
\* anonymous operation stands and however many named operations there are.
C4_AnonymousOperationFailsFast ==
  (getterResult.call = "operations" /\ SomeOperationIsAnonymous)
    => (getterResult.threw /\ getterResult.value = <<>>)

\* the getter threw on a store where the named operation Q comes first and
\* the anonymous operation after it
C4_Witness ==
  /\ getterResult.call = "operations"
  /\ getterResult.threw
  /\ documentsByFile["a.graphql"][1].ast.definitions[1].name = "Q"
  /\ Len(documentsByFile["a.graphql"][1].ast.definitions) = 2
  /\ documentsByFile["a.graphql"][1].ast.definitions[2].name = NoName

MergedReturned ==
  getterResult.call = "mergedOperationsAndFragmentsForService" /\ ~getterResult.threw

NoListConfigured ==
  /\ (~config.client.clientOnlyDirectives.defined
        \/ config.client.clientOnlyDirectives.names = <<>>)
  /\ (~config.client.clientSchemaDirectives.defined
        \/ config.client.clientSchemaDirectives.names = <<>>)

RECURSIVE EverySelectionSetHasTypename(_)
EverySelectionSetHasTypename(selections) ==
  selections # <<>> =>
    /\ \E i \in DOMAIN selections : selections[i].name = "__typename"
    /\ \A i \in DOMAIN selections : EverySelectionSetHasTypename(selections[i].selections)

TypenamesInserted(n) ==
  LET current == MergedOperationsAndFragments(documentsByFile).value
  IN /\ getterResult.value[n] =
          WithTypenameFieldAddedWhereNeeded(ServiceOnly(current[n], config.client))
     /\ \A k \in DOMAIN getterResult.value[n].definitions :
          EverySelectionSetHasTypename(getterResult.value[n].definitions[k].selections)

\* C7 as stated: with addTypename set, every document of the result has had
\* typename selections inserted, whatever the two directive lists are.
C7_TypenameAlwaysInserted ==
  (MergedReturned /\ config.client.addTypename)
    => \A n \in DOMAIN getterResult.value : TypenamesInserted(n)

\* C7 as amended: with addTypename set and at least one of the two directive
\* lists non-empty, every document of the result has had typename selections
\* inserted into its filtered form; with both lists empty or absent the
\* merged documents come back without any typename inserted.
C7_TypenameInsertedWhenFiltering ==
  (MergedReturned /\ config.client.addTypename)
    => IF NoListConfigured
       THEN getterResult.value = MergedOperationsAndFragments(documentsByFile).value
       ELSE \A n \in DOMAIN getterResult.value : TypenamesInserted(n)

\* addTypename is set, clientOnlyDirectives is configured, and the result
\* holds Q with a typename in front of its fields
C7_Witness ==
  /\ MergedReturned
  /\ config.client.addTypename
  /\ config.client.clientOnlyDirectives.names = <<"connection">>
  /\ ~config.client.clientSchemaDirectives.defined
  /\ "Q" \in DOMAIN getterResult.value
  /\ \E k \in DOMAIN getterResult.value["Q"].definitions :
       LET d == getterResult.value["Q"].definitions[k]
       IN d.name = "Q" /\ d.selections[1].name = "__typename" /\ Len(d.selections) = 3

\* C8: with both directive lists empty or absent the getter hands back
\* mergedOperationsAndFragments as it is: the same operation names with the
\* same documents (and the same failure when an operation is anonymous).
C8_IdentityWithoutDirectiveLists ==
  (getterResult.call = "mergedOperationsAndFragmentsForService" /\ NoListConfigured)
    => /\ getterResult.threw = MergedOperationsAndFragments(documentsByFile).threw
       /\ getterResult.value = MergedOperationsAndFragments(documentsByFile).value

\* no list is configured, addTypename is set, and the result still holds
\* Q with its client-annotated field and no typename
C8_Witness ==
  /\ MergedReturned
  /\ NoListConfigured
  /\ config.client.addTypename
  /\ config.client.clientOnlyDirectives.defined
  /\ ~config.client.clientSchemaDirectives.defined
  /\ "Q" \in DOMAIN getterResult.value
  /\ \E k \in DOMAIN getterResult.value["Q"].definitions :
       getterResult.value["Q"].definitions[k].selections
         = <<Field("b", <<"client">>, <<>>), FragmentSpread("F")>>

\* the filtering in the order the specification gives: annotated fields go
\* first, directives are stripped from what remains
FilteredAsSpecified(document) ==
  RemoveDirectives(
    RemoveDirectiveAnnotatedFields(document, config.client.clientSchemaDirectives),
    config.client.clientOnlyDirectives)

\* C9: an operation whose merged document keeps no definition after the
\* directive and field filtering (such as an operation whose only field
\* carries a configured client-schema directive) has no entry in the result,
\* with or without addTypename; an operation that keeps a definition has one.
C9_EmptiedOperationsOmitted ==
  MergedReturned =>
    \A n \in DOMAIN MergedOperationsAndFragments(documentsByFile).value :
      LET left == FilteredAsSpecified(
                    MergedOperationsAndFragments(documentsByFile).value[n])
      IN (n \in DOMAIN getterResult.value) <=> (left.definitions # <<>>)

\* a field of the selections, at any depth, that carries one of the directives
RECURSIVE CarriesAnnotatedField(_, _)
CarriesAnnotatedField(selections, names) ==
  \E i \in DOMAIN selections :
    \/ /\ selections[i].kind = "Field"
       /\ Range(selections[i].directives) \cap Range(names) # {}
    \/ CarriesAnnotatedField(selections[i].selections, names)

\* C11: the projector removes fields before it strips directives: no field
\* carrying a directive of clientSchemaDirectives is left in a projected
\* document, also when the directive is named in clientOnlyDirectives, and
\* each projected document is the merged one with those fields removed and
\* the clientOnlyDirectives then stripped from the nodes that remain.
C11_FieldsRemovedBeforeDirectivesStripped ==
  MergedReturned /\ ~NoListConfigured =>
    \A n \in DOMAIN getterResult.value :
      LET merged == MergedOperationsAndFragments(documentsByFile).value[n]
          kept == RemoveDirectiveAnnotatedFields(merged,
                    config.client.clientSchemaDirectives)
          left == FilteredAsSpecified(merged)
      IN /\ \A k \in DOMAIN kept.definitions :
              ~CarriesAnnotatedField(kept.definitions[k].selections,
                                     config.client.clientSchemaDirectives.names)
         /\ getterResult.value[n] =
              IF config.client.addTypename
              THEN WithTypenameFieldAddedWhereNeeded(left)
              ELSE left

(***************************************************************************)
(* Claims about schema composition                                         *)
(***************************************************************************)
DirectiveNamesOf(definitions) ==
  NamesOf(SelectSeq(definitions, IsDirectiveDefinitionNode))

\* a directive name of the library that the service schema or the client
\* definitions the schema was composed from already have
SharedDirectiveNames(sch) ==
  DirectiveNamesOf(ApolloClientSchemaDefinitions)
    \cap (sch.service.directives \cup DirectiveNamesOf(sch.extension))

\* C3: the directive definitions injected into a composed schema are the
\* complete library when no library directive name is a directive name of
\* the service schema or of the client definitions, and no definition at
\* all as soon as one name is shared; never a part of the library.
\* The same holds of what the getter returns for the project as it stands.
C3_InjectionAllOrNothing ==
  /\ schema.composed =>
       /\ SharedDirectiveNames(schema) = {}
            => schema.injected = ApolloClientSchemaDefinitions
       /\ SharedDirectiveNames(schema) # {} => schema.injected = <<>>
  /\ LET standing == [service |-> serviceSchema,
                      extension |-> TypeSystemDefinitionsAndExtensions(documentsByFile)]
         returned == MissingApolloClientDirectives(serviceSchema, documentsByFile)
     IN IF SharedDirectiveNames(standing) = {}
        THEN returned = ApolloClientSchemaDefinitions
        ELSE returned = <<>>

\* a composed schema whose client definitions declare one library directive
C3_Witness ==
  /\ schema.composed
  /\ DirectiveNamesOf(schema.extension) = {"client"}
  /\ schema.service.directives \cap DirectiveNamesOf(ApolloClientSchemaDefinitions) = {}
  /\ schema.injected = <<>>

(***************************************************************************)
(* Claims about validation passes                                          *)
(***************************************************************************)
PassRan == lastStep.name = "validate"

CompositionFailed == PassRan /\ lastStep.caught.thrown

ResolvableSource(error) == error.thrown /\ error.graphql /\ error.source # NoName

\* what validating every document of file u against sch yields
DocumentDiagnosticsOf(u, sch) ==
  IF u \in Range(URIs)
  THEN Flatten([i \in DOMAIN documentsByFile[u] |->
         CollectExecutableDefinitionDiagnositics(sch, documentsByFile[u][i],
                                                 Fragments(documentsByFile))])
  ELSE <<>>

ErrorDiagnosticsOf(u, error) ==
  IF ResolvableSource(error) /\ error.source = u
  THEN DiagnosticsFromError(error) ELSE <<>>

\* the uris a pass has something to say about
ReportedURIs(error) ==
  {u \in Range(URIs) : documentsByFile[u] # <<>>}
    \cup (IF ResolvableSource(error) THEN {error.source} ELSE {})

DeliveredTo(u) ==
  LET ForURI(c) == c.handler = "onDiagnostics" /\ c.uri = u
  IN SelectSeq(calls, ForURI)

DecorationCalls ==
  LET IsDecoration(c) == c.handler = "onDecorations"
  IN SelectSeq(calls, IsDecoration)

\* C5: a pass whose composition failed leaves the bare service schema as the
\* project's schema, reports for every file the diagnostics of all its
\* documents against that schema, puts the composition error first on its
\* source uri when that uri is resolvable, and ends with the decoration pass.
C5_FailedCompositionDegrades ==
  CompositionFailed =>
    /\ schema = BareSchema(serviceSchema)
    /\ \A u \in ReportedURIs(lastStep.caught) :
         \E i \in DOMAIN calls :
           calls[i] = Call("onDiagnostics", u,
                           ErrorDiagnosticsOf(u, lastStep.caught)
                             \o DocumentDiagnosticsOf(u, BareSchema(serviceSchema)))
    /\ "onDecorations" \in handlers =>
         /\ calls # <<>>
         /\ calls[Len(calls)] =
              Call("onDecorations", NoName,
                   Decorations(documentsByFile, BareSchema(serviceSchema),
                               fieldLatenciesMS, frontendUrlRoot, config))

\* a failed pass that follows a composed schema: the error is reported on a
\* tracked file, and a document of another file lost a field of the extension
C5_Witness ==
  /\ CompositionFailed
  /\ lastStep.caught.source = "b.graphql"
  /\ "onDecorations" \in handlers
  /\ Len(DeliveredTo("b.graphql")) = 1
  /\ Len(DeliveredTo("b.graphql")[1].payload) >= 1
  /\ \E i \in DOMAIN calls :
       /\ calls[i].handler = "onDiagnostics"
       /\ calls[i].uri = "a.graphql"
       /\ Diagnostic("unknown field", "localField") \in Range(calls[i].payload)

AllURIs == Range(URIs) \cup {e.source : e \in CompositionErrors} \cup {NoName}

\* C10: a pass calls onDiagnostics exactly once for each uri of its
\* diagnostic set, so once for each file with a document, with exactly the
\* diagnostics of this pass for the uri, and every such call comes before
\* the one onDecorations call, which is made when that handler is registered.
C10_OneReportPerFileBeforeDecorations ==
  PassRan =>
    /\ \A u \in AllURIs :
         IF u \in ReportedURIs(lastStep.caught)
         THEN /\ Len(DeliveredTo(u)) = 1
              /\ DeliveredTo(u)[1].payload =
                   ErrorDiagnosticsOf(u, lastStep.caught)
                     \o DocumentDiagnosticsOf(u, schema)
              /\ \E i \in DOMAIN diagnosticSet : diagnosticSet[i].uri = u
         ELSE /\ DeliveredTo(u) = <<>>
              /\ \A i \in DOMAIN diagnosticSet : diagnosticSet[i].uri # u
    /\ \A i \in DOMAIN calls : calls[i].uri \in AllURIs
    /\ Len(DecorationCalls) = IF "onDecorations" \in handlers THEN 1 ELSE 0
    /\ \A i, j \in DOMAIN calls :
         calls[i].handler = "onDiagnostics" /\ calls[j].handler = "onDecorations"
           => i < j

\* a second pass over two files with documents, after a pass that reported
\* other diagnostics for them
C10_Witness ==
  /\ PassRan
  /\ \A u \in Range(URIs) : Len(DeliveredTo(u)) = 1
  /\ Len(DecorationCalls) = 1
  /\ DeliveredTo("a.graphql")[1].payload = <<>>
  /\ DeliveredTo("b.graphql")[1].payload # <<>>

(***************************************************************************)
(* Claims about loads                                                      *)
(***************************************************************************)
SchemaLoadFailed == lastStep.name = "resolveSchema rejected"

LatenciesLoadFailed == lastStep.name = "loadSchemaTagsAndFieldLatencies rejected"

FrontendUrlRootLoadFailed == lastStep.name = "loadFrontendUrlRoot rejected"

SchemaFieldsAsBefore ==
  SchemaState(serviceSchema, schema) = schemaLoad.before

\* C6 as stated: whichever provider call fails, the fields the load derives
\* equal their values before the call.
C6_FailedLoadsLeaveStateUnchanged ==
  /\ SchemaLoadFailed => SchemaFieldsAsBefore
  /\ LatenciesLoadFailed \/ FrontendUrlRootLoadFailed =>
       EngineState(fieldLatenciesMS, frontendUrlRoot, lastLoadDate) = engineLoad.before

\* C6: a failed resolveSchema leaves serviceSchema and schema as before the
\* call, a failed loadSchemaTagsAndFieldLatencies leaves the three engine
\* fields as before the call, and a failed loadFrontendUrlRoot leaves
\* frontendUrlRoot and lastLoadDate as before the call while fieldLatenciesMS
\* holds what the call loaded when the project has a service id.
C6_FailedCallLeavesItsOwnState ==
  /\ SchemaLoadFailed => SchemaFieldsAsBefore
  /\ LatenciesLoadFailed =>
       EngineState(fieldLatenciesMS, frontendUrlRoot, lastLoadDate) = engineLoad.before
  /\ FrontendUrlRootLoadFailed =>
       /\ frontendUrlRoot = engineLoad.before.frontendUrlRoot
       /\ lastLoadDate = engineLoad.before.lastLoadDate
       /\ IF config.graph # NoName
          THEN fieldLatenciesMS \in LatencyValues
          ELSE fieldLatenciesMS = engineLoad.before.fieldLatenciesMS

\* after a load that succeeded, a load whose second call fails has replaced
\* the latencies of the first
C6_Witness ==
  /\ FrontendUrlRootLoadFailed
  /\ engineLoad.before.lastLoadDate >= 1
  /\ engineLoad.before.fieldLatenciesMS.defined
  /\ fieldLatenciesMS # engineLoad.before.fieldLatenciesMS
  /\ frontendUrlRoot = engineLoad.before.frontendUrlRoot
  /\ serviceSchema # NoServiceSchema
====
